---- MODULE Spec2Model ----
(***************************************************************************)
(* Model of src/src/index.js: the persisted-cursor delivery loop           *)
(* (main, sendNextIfDue), the per-hour quota allocation of                 *)
(* generateSchedule and the interval de-duplication of                     *)
(* enforceUniqueIntervals.  Times are milliseconds, as in the code.        *)
(***************************************************************************)
EXTENDS Integers, Sequences, FiniteSets, TLC

VARIABLES
  config,       \* `defaulted`: the configuration of the running process
  file,         \* contents of STATE_FILE
  state,        \* `state` of main (in memory)
  pc,           \* position of the process
  now,          \* getCurrentUtcTime(): Date.now() + timeOffset
  timerDue,     \* instant at which the pending setTimeout(sendNextIfDue) is due
  lastDelay,    \* the delay handed to the last setTimeout
  internetNow,  \* local of sendNextIfDue
  nextEvent,    \* local of sendNextIfDue
  msUntil,      \* local of sendNextIfDue
  nextTotal,    \* local of sendNextIfDue
  lastCall,     \* arguments of the last sendDiscordMessage call of the tick loop
  lastOutcome,  \* how the last step of the tick loop ended
  delivered,    \* history: per schedule index, messages the channel accepted
  skipped,      \* history: schedule indices skipped as stale
  crashes,      \* number of process crashes so far
  timers,       \* number of pending setTimeout(sendNextIfDue) timers
  alloc,        \* generateSchedule: inputs and per-hour quotas
  dedup,        \* enforceUniqueIntervals: input and output
  plan,         \* generateFullSchedule: the random draws and the result
  timeOffset,   \* the module-level timeOffset
  sync          \* initializeTimeOffset: position, systemTime and the response

deliveryVars == <<config, file, state, pc, now, timerDue, lastDelay, internetNow,
                  nextEvent, msUntil, nextTotal, lastCall, lastOutcome,
                  delivered, skipped, crashes, timers>>

vars == <<config, file, state, pc, now, timerDue, lastDelay, internetNow,
          nextEvent, msUntil, nextTotal, lastCall, lastOutcome,
          delivered, skipped, crashes, timers, alloc, dedup, plan, timeOffset, sync>>

(***************************************************************************)
(* Bounds of the model                                                     *)
(***************************************************************************)
MaxCountdowns == 1   \* countdown entries kept of the 8 of countdownMessages
MaxCrashes == 2      \* crashes of the process in one behaviour

(***************************************************************************)
(* Program constants                                                       *)
(***************************************************************************)
MAX_ALLOWED_DELAY_MS == 30 * 1000
RETRY_DELAY_MS == 1000
MAX_POLL_MS == 5000
HOUR_MS == 3600000

Min(a, b) == IF a <= b THEN a ELSE b
Max(a, b) == IF a >= b THEN a ELSE b

(***************************************************************************)
(* Configurations (`defaulted').  Only the fields the delivery loop, the   *)
(* pruning and the signature read are kept; the other signature fields are *)
(* the same in all of them.  The second differs from the first only in     *)
(* startRaisedUsd, the third only in endTimeUtc.                           *)
(***************************************************************************)
Configs ==
  { [endTimeUtc |-> 42000, targetTotalUsd |-> 200, amountPerMessageUsd |-> 100,
     enforceHardStopAtEnd |-> TRUE, specialPhase |-> FALSE, startRaisedUsd |-> 0],
    [endTimeUtc |-> 42000, targetTotalUsd |-> 200, amountPerMessageUsd |-> 100,
     enforceHardStopAtEnd |-> TRUE, specialPhase |-> FALSE, startRaisedUsd |-> 500],
    [endTimeUtc |-> 41000, targetTotalUsd |-> 200, amountPerMessageUsd |-> 100,
     enforceHardStopAtEnd |-> TRUE, specialPhase |-> FALSE, startRaisedUsd |-> 0],
    [endTimeUtc |-> 42000, targetTotalUsd |-> 50, amountPerMessageUsd |-> 50,
     enforceHardStopAtEnd |-> FALSE, specialPhase |-> TRUE, startRaisedUsd |-> 0] }

\* A variant of getConfigSignature that leaves endTimeUtc out.
getConfigSignature_NoEnd(c) ==
  <<c.targetTotalUsd, c.amountPerMessageUsd, c.enforceHardStopAtEnd, c.specialPhase>>

\* JSON.stringify of the schedule-shaping fields; startRaisedUsd is not one.
getConfigSignature(c) ==
  <<c.endTimeUtc, c.targetTotalUsd, c.amountPerMessageUsd,
    c.enforceHardStopAtEnd, c.specialPhase>>

(***************************************************************************)
(* Schedules                                                               *)
(***************************************************************************)
EventTimes == {40000, 41000, 42000}
Offsets == {-8000, -2000, 0, MAX_ALLOWED_DELAY_MS, MAX_ALLOWED_DELAY_MS + 1,
            MAX_ALLOWED_DELAY_MS + 1 + RETRY_DELAY_MS}
ClockValues == {0} \cup {t + d : t \in EventTimes, d \in Offsets}

\* The last sampled instant; every event is more than 30 seconds old by then.
LastInstant == CHOOSE t \in ClockValues : \A u \in ClockValues : u <= t

CountdownImages == <<"59.png", "30.png", "15.png", "5.png", "4.png", "3.png", "2.png", "1.png">>
CountdownTexts == <<"59 MINUTES", "30 MINUTES", "15 MINUTES", "5 MINUTES",
                    "4 MINUTES", "3 MINUTES", "2 MINUTES", "1 MINUTE">>

BuyEntry(t) == [at |-> t, kind |-> "buy", text |-> "", image |-> ""]
CountdownEntry(t, k) ==
  [at |-> t, kind |-> "countdown", text |-> CountdownTexts[k], image |-> CountdownImages[k]]
StartEntry(t) == [at |-> t, kind |-> "start", text |-> "LIVE", image |-> "live.png"]

\* Math.ceil(config.targetTotalUsd / amountPerMessage), for positive integers
totalMessagesNeeded(c) ==
  (c.targetTotalUsd + c.amountPerMessageUsd - 1) \div c.amountPerMessageUsd

\* The schedules generateFullSchedule may return: with the special phase the
\* countdown entries and the start entry, at increasing instants, then
\* totalMessagesNeeded buy entries at increasing instants not before the start
\* entry; the instants come from EventTimes.
PlannedSchedules(c) ==
  LET a == IF c.specialPhase THEN MaxCountdowns ELSE 0
      b == IF c.specialPhase THEN 1 ELSE 0
      n == a + b + totalMessagesNeeded(c)
      Instants == { ts \in [1..n -> EventTimes] :
                      /\ \A i \in 1..n : \A j \in 1..n :
                           (i < j /\ (j <= a + b \/ i > a + b)) => ts[i] < ts[j]
                      /\ \A i \in 1..n : \A j \in 1..n : i < j => ts[i] <= ts[j] }
  IN { [i \in 1..n |->
          IF i <= a THEN CountdownEntry(ts[i], i)
          ELSE IF i <= a + b THEN StartEntry(ts[i])
          ELSE BuyEntry(ts[i])] : ts \in Instants }

Null == [tag |-> "null"]
Absent == [tag |-> "absent"]
Corrupt == [tag |-> "corrupt"]
NoEvent == [at |-> 0, kind |-> "none", text |-> "", image |-> ""]
NoCall == [idx |-> 0, kind |-> "none", text |-> "", image |-> ""]

IsState(s) == s.tag = "state"

(***************************************************************************)
(* Initial state: no process, no state file.                               *)
(***************************************************************************)
NoAlloc == [stage |-> "off"]
NoDedup == [stage |-> "off"]
NoPlan == [stage |-> "off"]
NoSync == [stage |-> "off"]

\* timeOffset before initializeTimeOffset has run (line 80)
NoOffset == [tag |-> "null"]

\* The delivery side before any process has run.
DeliveryAtRest ==
  /\ file = Absent
  /\ state = Null
  /\ pc = "down"
  /\ now = 0
  /\ timerDue = 0
  /\ lastDelay = 0
  /\ internetNow = 0
  /\ nextEvent = NoEvent
  /\ msUntil = 0
  /\ nextTotal = 0
  /\ lastCall = NoCall
  /\ lastOutcome = "none"
  /\ delivered = [i \in 1..0 |-> 0]
  /\ skipped = {}
  /\ crashes = 0
  /\ timers = 0

Init ==
  /\ config \in Configs
  /\ DeliveryAtRest
  /\ alloc = NoAlloc
  /\ dedup = NoDedup
  /\ plan = NoPlan
  /\ timeOffset = NoOffset
  /\ sync = NoSync

\* The locals of sendNextIfDue die with the call.
ResetLocals ==
  /\ internetNow' = 0
  /\ nextEvent' = NoEvent
  /\ msUntil' = 0
  /\ nextTotal' = 0

\* The process dies; memory is lost, the file stays as `f'.
Dies(f) ==
  /\ crashes < MaxCrashes
  /\ crashes' = crashes + 1
  /\ pc' = "down"
  /\ state' = Null
  /\ file' = f
  /\ timerDue' = 0
  /\ timers' = 0
  /\ lastDelay' = 0
  /\ lastCall' = NoCall
  /\ lastOutcome' = "none"
  /\ ResetLocals
  /\ UNCHANGED <<now, delivered, skipped, alloc, dedup, plan, timeOffset, sync>>

\* fs.writeFileSync truncates the file and then writes it: a process killed
\* inside the call leaves a file JSON.parse rejects.
TornWrite == Dies(Corrupt)

\* The process is killed between two statements.
Crash ==
  /\ pc # "down"
  /\ Dies(file)
  /\ UNCHANGED config

\* readJsonFile(STATE_FILE, null)
readJsonFile(f) == IF IsState(f) THEN f ELSE Null

\* A variant of NeedsNewSchedule that reuses whatever state it could read.
NeedsNewSchedule_IgnoresSignature(st, configSig) == ~IsState(st)

\* main, line 549
NeedsNewSchedule(st, configSig) ==
  ~IsState(st) \/ st.configSignature # configSig

\* main, lines 550-558
FreshState(c, sched) ==
  [tag |-> "state",
   configSignature |-> getConfigSignature(c),
   schedule |-> sched,
   sentCount |-> 0,
   totalUsdRaised |-> c.startRaisedUsd,
   completed |-> FALSE]

\* main, lines 547-568: the process starts under configuration c, loads the
\* state, or plans and persists a new schedule.
Start ==
  /\ pc = "down"
  /\ \E c \in Configs :
       /\ config' = c
       /\ IF NeedsNewSchedule(readJsonFile(file), getConfigSignature(c))
          THEN \E sched \in PlannedSchedules(c) :
                 \/ /\ state' = FreshState(c, sched)
                    /\ file' = state'
                    /\ delivered' = [i \in 1..Len(sched) |-> 0]
                    /\ skipped' = {}
                    /\ pc' = "loaded"
                    /\ ResetLocals
                    /\ UNCHANGED <<crashes, timerDue, timers, lastDelay, lastCall,
                                   lastOutcome, now, alloc, dedup, plan, timeOffset, sync>>
                 \/ TornWrite
          ELSE /\ state' = readJsonFile(file)
               /\ pc' = "loaded"
               /\ ResetLocals
               /\ UNCHANGED <<file, delivered, skipped, crashes, timerDue, timers,
                              lastDelay, lastCall, lastOutcome, now, alloc, dedup, plan, timeOffset, sync>>

\* A variant of PruneSchedule that keeps every entry.
PruneSchedule_KeepsAll(sched, endTs) == sched

\* state.schedule.filter(...), lines 722-725
PruneSchedule(sched, endTs) == SelectSeq(sched, LAMBDA item : item.at <= endTs)

\* main, lines 720-729: the hard-stop pruning, then the first call of
\* sendNextIfDue (modelled as a timer that is due at once).
Prune ==
  /\ pc = "loaded"
  /\ \/ /\ config.enforceHardStopAtEnd
        /\ \/ /\ state' = [state EXCEPT !.schedule = PruneSchedule(@, config.endTimeUtc)]
              /\ file' = state'
              /\ pc' = "idle"
              /\ timerDue' = now
              /\ timers' = 1
              /\ UNCHANGED <<crashes, lastDelay, lastCall, lastOutcome, internetNow,
                             nextEvent, msUntil, nextTotal>>
           \/ /\ TornWrite
     \/ /\ ~config.enforceHardStopAtEnd
        /\ pc' = "idle"
        /\ timerDue' = now
        /\ timers' = 1
        /\ UNCHANGED <<state, file, crashes, lastDelay, lastCall, lastOutcome,
                       internetNow, nextEvent, msUntil, nextTotal>>
  /\ UNCHANGED <<config, now, delivered, skipped, alloc, dedup, plan, timeOffset, sync>>

\* The schedule entry at the cursor (state.schedule[state.sentCount]; JavaScript
\* counts from 0, sequences here from 1).
HeadEntry(st) == st.schedule[st.sentCount + 1]

\* writeJsonFile(STATE_FILE, state) and what follows it, or the process killed
\* inside the write.
TickUnchanged == UNCHANGED <<config, now, alloc, dedup, plan, timeOffset, sync>>

\* sendNextIfDue, lines 616-629: a timer fires and the tick begins.
TickStart ==
  /\ pc = "idle"
  /\ timers > 0
  /\ now >= timerDue
  /\ \/ /\ (~IsState(state) \/ state.completed)
        /\ pc' = "stopped"
        /\ timers' = timers - 1
        /\ lastOutcome' = "returned"
        /\ UNCHANGED <<state, file, crashes, timerDue, lastDelay, lastCall,
                       internetNow, nextEvent, msUntil, nextTotal, delivered, skipped>>
        /\ TickUnchanged
     \/ /\ IsState(state) /\ ~state.completed
        /\ state.sentCount >= Len(state.schedule)
        /\ \/ /\ state' = [state EXCEPT !.completed = TRUE]
              /\ file' = state'
              /\ pc' = "stopped"
              /\ timers' = timers - 1
              /\ lastOutcome' = "completed"
              /\ UNCHANGED <<crashes, timerDue, lastDelay, lastCall, internetNow,
                             nextEvent, msUntil, nextTotal, delivered, skipped>>
              /\ TickUnchanged
           \/ TornWrite /\ UNCHANGED config
     \/ /\ IsState(state) /\ ~state.completed
        /\ state.sentCount < Len(state.schedule)
        /\ internetNow' = now
        /\ nextEvent' = HeadEntry(state)
        /\ msUntil' = HeadEntry(state).at - now
        /\ pc' = "loop"
        /\ timers' = timers - 1
        /\ UNCHANGED <<state, file, crashes, timerDue, lastDelay, lastCall,
                       lastOutcome, nextTotal, delivered, skipped>>
        /\ TickUnchanged

\* A variant of IsStale that also skips an event exactly 30 seconds old.
IsStale_Inclusive(ms) == ms <= -MAX_ALLOWED_DELAY_MS

\* The test of the skip loop, line 632: msUntil < -MAX_ALLOWED_DELAY_MS
IsStale(ms) == ms < -MAX_ALLOWED_DELAY_MS

\* A variant of Skip that advances the cursor in memory and leaves the write to
\* a later step.
Skip_Buffered ==
  /\ pc = "loop"
  /\ IsStale(msUntil)
  /\ state.sentCount < Len(state.schedule)
  /\ state' = [state EXCEPT !.sentCount = @ + 1]
  /\ skipped' = skipped \cup {state.sentCount + 1}
  /\ lastOutcome' = "skipped"
  /\ IF state'.sentCount >= Len(state'.schedule)
     THEN /\ pc' = "skipEnd"
          /\ UNCHANGED <<nextEvent, msUntil>>
     ELSE /\ pc' = "loop"
          /\ msUntil' = HeadEntry(state').at - internetNow
          /\ nextEvent' = [nextEvent EXCEPT !.kind = HeadEntry(state').kind,
                                           !.at = HeadEntry(state').at]
  /\ UNCHANGED <<file, crashes, timerDue, timers, lastDelay, lastCall, internetNow,
                 nextTotal, delivered>>
  /\ TickUnchanged

\* sendNextIfDue, lines 632-650: one pass of the skip loop.
Skip ==
  /\ pc = "loop"
  /\ IsStale(msUntil)
  /\ state.sentCount < Len(state.schedule)
  /\ \/ /\ state' = [state EXCEPT !.sentCount = @ + 1]
        /\ file' = state'
        /\ skipped' = skipped \cup {state.sentCount + 1}
        /\ lastOutcome' = "skipped"
        /\ IF state'.sentCount >= Len(state'.schedule)
           THEN /\ pc' = "skipEnd"
                /\ UNCHANGED <<nextEvent, msUntil>>
           ELSE /\ pc' = "loop"
                /\ msUntil' = HeadEntry(state').at - internetNow
                /\ nextEvent' = [nextEvent EXCEPT !.kind = HeadEntry(state').kind,
                                                 !.at = HeadEntry(state').at]
        /\ UNCHANGED <<crashes, timerDue, timers, lastDelay, lastCall, internetNow,
                       nextTotal, delivered>>
        /\ TickUnchanged
     \/ TornWrite /\ UNCHANGED config

\* sendNextIfDue, lines 636-641: the skip loop ran off the end of the schedule.
SkipComplete ==
  /\ pc = "skipEnd"
  /\ \/ /\ state' = [state EXCEPT !.completed = TRUE]
        /\ file' = state'
        /\ pc' = "stopped"
        /\ lastOutcome' = "completed"
        /\ UNCHANGED <<crashes, timerDue, timers, lastDelay, lastCall, internetNow,
                       nextEvent, msUntil, nextTotal, delivered, skipped>>
        /\ TickUnchanged
     \/ TornWrite /\ UNCHANGED config

\* sendNextIfDue, lines 652-668 and 677-702: the head event is due and is
\* handed to sendDiscordMessage.
Send ==
  /\ pc = "loop"
  /\ ~(IsStale(msUntil) /\ state.sentCount < Len(state.schedule))
  /\ msUntil <= 0
  /\ \/ /\ nextEvent.kind = "buy"
        /\ nextTotal' = state.totalUsdRaised + config.amountPerMessageUsd
        /\ lastCall' = [idx |-> state.sentCount + 1, kind |-> "buy",
                        text |-> "", image |-> "feed.png"]
     \/ /\ nextEvent.kind \in {"countdown", "start"}
        /\ nextTotal' = nextTotal
        /\ lastCall' = [idx |-> state.sentCount + 1, kind |-> nextEvent.kind,
                        text |-> IF nextEvent.text = "" /\ nextEvent.kind = "start"
                                 THEN "LIVE" ELSE nextEvent.text,
                        image |-> nextEvent.image]
  /\ pc' = "sending"
  /\ UNCHANGED <<state, file, crashes, timerDue, timers, lastDelay, lastOutcome,
                 internetNow, nextEvent, msUntil, delivered, skipped>>
  /\ TickUnchanged

\* channel.send resolves on Discord's side: the message is in the channel.
Accept ==
  /\ pc = "sending"
  /\ pc' = "accepted"
  /\ delivered' = [delivered EXCEPT ![lastCall.idx] = @ + 1]
  /\ UNCHANGED <<state, file, crashes, timerDue, timers, lastDelay, lastCall, lastOutcome,
                 internetNow, nextEvent, msUntil, nextTotal, skipped>>
  /\ TickUnchanged

\* sendNextIfDue, lines 708 and 712, after the state became `st': the write
\* and the next timer, or the process killed inside the write.
Resumed(st) ==
  /\ pc = "accepted"
  /\ \/ /\ state' = st
        /\ file' = state'
        /\ pc' = "idle"
        /\ lastDelay' = RETRY_DELAY_MS
        /\ timerDue' = now + RETRY_DELAY_MS
        /\ timers' = timers + 1
        /\ lastOutcome' = "delivered"
        /\ ResetLocals
        /\ UNCHANGED <<crashes, lastCall, delivered, skipped>>
        /\ TickUnchanged
     \/ TornWrite /\ UNCHANGED config

\* A variant of SendSucceeded that advances the cursor in the branch and again
\* after it.
SendSucceeded_AdvancesTwice ==
  Resumed([state EXCEPT
             !.sentCount = @ + 2,
             !.totalUsdRaised = IF nextEvent.kind = "buy" THEN nextTotal ELSE @])

\* A variant of SendSucceeded that counts every delivered event as a purchase.
SendSucceeded_CountsEveryKind ==
  Resumed([state EXCEPT
             !.sentCount = @ + 1,
             !.totalUsdRaised = @ + config.amountPerMessageUsd])

\* sendNextIfDue, lines 669-676 and 703-712: the await returns.
SendSucceeded ==
  Resumed([state EXCEPT
             !.sentCount = @ + 1,
             !.totalUsdRaised = IF nextEvent.kind = "buy" THEN nextTotal ELSE @])

\* A variant of SendFailed that gives up on the event.
SendFailed_Advances ==
  /\ pc = "sending"
  /\ pc' = "idle"
  /\ state' = [state EXCEPT !.sentCount = @ + 1]
  /\ file' = state'
  /\ lastDelay' = RETRY_DELAY_MS
  /\ timerDue' = now + RETRY_DELAY_MS
  /\ timers' = timers + 1
  /\ lastOutcome' = "failed"
  /\ ResetLocals
  /\ UNCHANGED <<crashes, lastCall, delivered, skipped>>
  /\ TickUnchanged

\* A variant of SendFailed without the return of line 713: the timer of line
\* 712 and the timer of line 717 are both set.
SendFailed_FallsThrough ==
  /\ pc = "sending"
  /\ pc' = "idle"
  /\ lastDelay' = RETRY_DELAY_MS
  /\ timerDue' = now + RETRY_DELAY_MS
  /\ timers' = timers + 2
  /\ lastOutcome' = "failed"
  /\ ResetLocals
  /\ UNCHANGED <<state, file, crashes, lastCall, delivered, skipped>>
  /\ TickUnchanged

\* A variant of SendFailed that returns without setting the timer of line 712.
SendFailed_NoRetry ==
  /\ pc = "sending"
  /\ pc' = "idle"
  /\ lastOutcome' = "failed"
  /\ ResetLocals
  /\ UNCHANGED <<state, file, crashes, timerDue, timers, lastDelay, lastCall,
                 delivered, skipped>>
  /\ TickUnchanged

\* sendDiscordMessage throws (lines 152-159); sendNextIfDue, lines 709-713.
SendFailed ==
  /\ pc = "sending"
  /\ pc' = "idle"
  /\ lastDelay' = RETRY_DELAY_MS
  /\ timerDue' = now + RETRY_DELAY_MS
  /\ timers' = timers + 1
  /\ lastOutcome' = "failed"
  /\ ResetLocals
  /\ UNCHANGED <<state, file, crashes, lastCall, delivered, skipped>>
  /\ TickUnchanged

\* A variant of Wait that always polls again after the full 5 seconds.
Wait_FixedPoll ==
  /\ pc = "loop"
  /\ msUntil > 0
  /\ pc' = "idle"
  /\ lastDelay' = MAX_POLL_MS
  /\ timerDue' = now + MAX_POLL_MS
  /\ timers' = timers + 1
  /\ lastOutcome' = "waiting"
  /\ ResetLocals
  /\ UNCHANGED <<state, file, crashes, lastCall, delivered, skipped>>
  /\ TickUnchanged

\* sendNextIfDue, lines 716-717: the head event is in the future.
Wait ==
  /\ pc = "loop"
  /\ msUntil > 0
  /\ pc' = "idle"
  /\ lastDelay' = Min(msUntil, MAX_POLL_MS)
  /\ timerDue' = now + Min(msUntil, MAX_POLL_MS)
  /\ timers' = timers + 1
  /\ lastOutcome' = "waiting"
  /\ ResetLocals
  /\ UNCHANGED <<state, file, crashes, lastCall, delivered, skipped>>
  /\ TickUnchanged

\* Time passes while the process is suspended or down: to a later sampled
\* instant or, after the last of them, to the instant the pending timer is due.
Advance ==
  /\ pc \in {"down", "idle", "sending"}
  /\ \/ \E t \in ClockValues : t > now /\ now' = t
     \/ /\ pc = "idle"
        /\ timers > 0
        /\ now >= LastInstant
        /\ timerDue > now
        /\ now' = timerDue
  /\ UNCHANGED <<config, file, state, pc, timerDue, lastDelay, internetNow,
                 nextEvent, msUntil, nextTotal, lastCall, lastOutcome,
                 delivered, skipped, crashes, timers, alloc, dedup, plan, timeOffset, sync>>

Next ==
  \/ Start
  \/ Prune
  \/ TickStart
  \/ Skip
  \/ SkipComplete
  \/ Send
  \/ Accept
  \/ SendSucceeded
  \/ SendFailed
  \/ Wait
  \/ Advance
  \/ Crash

Spec == Init /\ [][Next]_vars

(***************************************************************************)
(* Claims about the delivery loop                                          *)
(***************************************************************************)

\* Position i of the schedule was delivered or skipped as stale.
Resolved(i) == i \in skipped \/ delivered[i] > 0

\* A step of the running process (not its start, not its death).
Running == pc # "down" /\ pc' # "down"

\* C1: no schedule event is accepted by the notifier more than once, crashes
\* and restarts from the persisted cursor included.
C1_DeliveredAtMostOnce == \A i \in DOMAIN delivered : delivered[i] <= 1

\* C2: within one run the cursor never decreases and moves by exactly 1, each
\* time past an event that was delivered or skipped as stale; the event handed
\* to the notifier is the one at the cursor, and every earlier one is resolved.
C2_InScheduleOrder ==
  [][ Running =>
        /\ state'.sentCount \in {state.sentCount, state.sentCount + 1}
        /\ state'.sentCount = state.sentCount + 1 =>
             \/ state.sentCount + 1 \in skipped'
             \/ delivered'[state.sentCount + 1] > 0
        /\ (pc # "sending" /\ pc' = "sending") =>
             /\ lastCall'.idx = state.sentCount + 1
             /\ lastCall'.kind = HeadEntry(state).kind
             /\ \A i \in 1..state.sentCount : Resolved(i) ]_vars

\* C2 witness: the cursor passed a skipped event and then a delivered one.
C2_Witness ==
  /\ IsState(state)
  /\ state.sentCount = 2
  /\ 1 \in skipped
  /\ delivered[2] = 1
  /\ pc = "idle"

\* C3: in memory and on file, completed holds exactly when the cursor is at
\* the end of the schedule.
C3_CompletedIffAtEnd ==
  /\ IsState(state) => (state.completed <=> state.sentCount = Len(state.schedule))
  /\ IsState(file) => (file.completed <=> file.sentCount = Len(file.schedule))

\* C4: in memory and on file, 0 <= cursor <= length(schedule).
C4_CursorInRange ==
  /\ IsState(state) => (0 <= state.sentCount /\ state.sentCount <= Len(state.schedule))
  /\ IsState(file) => (0 <= file.sentCount /\ file.sentCount <= Len(file.schedule))

\* C4 witness: a restarted process whose schedule was pruned by the hard stop
\* and whose cursor is at its end.
C4_Witness ==
  /\ IsState(state)
  /\ crashes > 0
  /\ config.enforceHardStopAtEnd
  /\ Len(state.schedule) = 1
  /\ state.sentCount = 1
  /\ pc = "idle"

\* C5: in the delivery loop totalUsdRaised, in memory and on file, changes only
\* when the await of a buy event returns, by exactly amountPerMessageUsd, and
\* it does change then; it never decreases.
C5_TotalGrowsByBuysOnly ==
  [][ Running =>
        /\ state'.totalUsdRaised >= state.totalUsdRaised
        /\ state'.totalUsdRaised # state.totalUsdRaised =>
             /\ pc = "accepted"
             /\ HeadEntry(state).kind = "buy"
             /\ state'.sentCount = state.sentCount + 1
        /\ (pc = "accepted" /\ pc' = "idle") =>
             /\ state'.totalUsdRaised =
                  IF HeadEntry(state).kind = "buy"
                  THEN state.totalUsdRaised + config.amountPerMessageUsd
                  ELSE state.totalUsdRaised
             /\ file'.totalUsdRaised = state'.totalUsdRaised
        /\ (IsState(file) /\ pc # "accepted") => file'.totalUsdRaised = file.totalUsdRaised
     ]_vars

\* C5 witness: a start event and a buy event were delivered and only the buy
\* event counted.
C5_Witness ==
  /\ IsState(state)
  /\ config.specialPhase
  /\ state.sentCount = Len(state.schedule)
  /\ \A i \in 2..Len(state.schedule) : delivered[i] = 1
  /\ state.totalUsdRaised = config.startRaisedUsd + config.amountPerMessageUsd

\* C6: at the head of a tick, an event more than 30 s in the past is skipped
\* (cursor + 1) with no call to the notifier; an event between now - 30 s and
\* now, both included, is handed to the notifier.
C6_SkipStaleSendDue ==
  [][ (pc = "loop" /\ pc' # "down") =>
        /\ HeadEntry(state).at < now - MAX_ALLOWED_DELAY_MS =>
             /\ state'.sentCount = state.sentCount + 1
             /\ pc' # "sending"
             /\ lastCall' = lastCall
             /\ delivered' = delivered
        /\ (now - MAX_ALLOWED_DELAY_MS <= HeadEntry(state).at /\ HeadEntry(state).at <= now) =>
             /\ pc' = "sending"
             /\ lastCall'.idx = state.sentCount + 1
             /\ state' = state ]_vars

\* C6 witness: after a skip in the same tick, an event exactly 30 s old is
\* being sent.
C6_Witness ==
  /\ pc = "sending"
  /\ lastOutcome = "skipped"
  /\ HeadEntry(state).at = now - MAX_ALLOWED_DELAY_MS

\* C7: when the notifier call fails, state and file are unchanged, the tick
\* ends normally with one timer of 1 s, and the tick that timer starts
\* evaluates the same schedule index.
C7_FailureRetriesSameEvent ==
  [][ /\ (pc = "sending" /\ pc' \notin {"sending", "accepted", "down"}) =>
           /\ state' = state
           /\ file' = file
           /\ pc' = "idle"
           /\ lastDelay' = RETRY_DELAY_MS
           /\ timerDue' = now + RETRY_DELAY_MS
           /\ lastOutcome' = "failed"
      /\ (pc = "idle" /\ lastOutcome = "failed" /\ pc' # "down") =>
           \/ UNCHANGED <<pc, state, file>>
           \/ /\ now >= timerDue
              /\ pc' = "loop"
              /\ state' = state
              /\ state.sentCount + 1 = lastCall.idx
              /\ nextEvent' = state.schedule[lastCall.idx] ]_vars

\* C7 witness: the tick after a failed send is looking at the same event.
C7_Witness ==
  /\ pc = "loop"
  /\ lastOutcome = "failed"
  /\ state.sentCount + 1 = lastCall.idx
  /\ delivered[lastCall.idx] = 0

\* C10: at startup the state is reused as persisted exactly when the file holds
\* a state whose configSignature is that of the configuration; otherwise a
\* new schedule is persisted with cursor 0, completed false and
\* totalUsdRaised = startRaisedUsd.
C10_ReuseIffSameSignature ==
  [][ (pc = "down" /\ pc' = "loaded") =>
        IF IsState(file) /\ file.configSignature = getConfigSignature(config')
        THEN state' = file /\ file' = file
        ELSE /\ state'.configSignature = getConfigSignature(config')
             /\ state'.schedule \in PlannedSchedules(config')
             /\ state'.sentCount = 0
             /\ state'.completed = FALSE
             /\ state'.totalUsdRaised = config'.startRaisedUsd
             /\ file' = state' ]_vars

\* C10 witness: a restart under a configuration that differs only in
\* startRaisedUsd resumed the persisted cursor and total.
C10_Witness ==
  /\ pc = "loaded"
  /\ crashes > 0
  /\ state.sentCount = 1
  /\ state.totalUsdRaised = 100
  /\ config.startRaisedUsd = 500
  /\ state = file

\* The entries of a schedule are all at or before endTs.
AllBy(sched, endTs) == \A i \in 1..Len(sched) : sched[i].at <= endTs

\* C14: with enforceHardStopAtEnd the step before the first tick removes every
\* entry later than endTimeUtc, keeps the others in order and persists the
\* result; no entry later than endTimeUtc is handed to the notifier; the
\* pruning of a restart that resumes a cursor changes nothing.
C14_HardStopPrunesBeforeDelivery ==
  [][ config'.enforceHardStopAtEnd =>
        /\ (pc = "loaded" /\ pc' = "idle") =>
             /\ state'.schedule =
                  SelectSeq(state.schedule, LAMBDA item : item.at <= config.endTimeUtc)
             /\ state' = [state EXCEPT !.schedule = state'.schedule]
             /\ file' = state'
             /\ (state.sentCount > 0 \/ AllBy(state.schedule, config.endTimeUtc)) =>
                  state' = state
        /\ pc' \in {"idle", "loop", "skipEnd", "sending", "accepted", "stopped"} =>
             /\ AllBy(state'.schedule, config'.endTimeUtc)
             /\ AllBy(file'.schedule, config'.endTimeUtc)
        /\ pc' = "sending" =>
             state'.schedule[lastCall'.idx].at <= config'.endTimeUtc ]_vars

\* C14 witness: after a restart, the first of two planned events is being sent
\* and the second, later than endTimeUtc, is gone.
C14_Witness ==
  /\ pc = "sending"
  /\ crashes > 0
  /\ config.enforceHardStopAtEnd
  /\ Len(delivered) = 2
  /\ Len(state.schedule) = 1
  /\ state.schedule[1].at <= config.endTimeUtc

\* C17: a crash leaves the state file as it was or holding a complete state.
C17_WriteIsAtomic ==
  [][ crashes' = crashes + 1 => (file' = file \/ IsState(file')) ]_vars

\* A tick of sendNextIfDue has begun and has not ended.
TickActive == pc \in {"loop", "skipEnd", "sending", "accepted"}

\* C18: pending timers and the active tick are at most one together, so a
\* timer is set only once the tick's notifier call has settled and no second
\* tick can begin while one is active.
C18_OneTickAtATime == timers + (IF TickActive THEN 1 ELSE 0) <= 1

\* C18 witness: a failed notifier call has settled and exactly one timer is
\* pending.
C18_Witness ==
  /\ pc = "idle"
  /\ lastOutcome = "failed"
  /\ timers = 1
  /\ timerDue = now + RETRY_DELAY_MS

C21_WaitsForFutureEvent ==
  [][ /\ (/\ pc = "loop"
          /\ HeadEntry(state).at > internetNow
          /\ crashes' = crashes) =>
           /\ state' = state
           /\ file' = file
           /\ lastCall' = lastCall
           /\ delivered' = delivered
           /\ skipped' = skipped
           /\ pc' = "idle"
           /\ timers' = 1
           /\ lastDelay' = Min(HeadEntry(state).at - internetNow, 5000)
           /\ timerDue' = now + lastDelay'
      /\ (pc # "sending" /\ pc' = "sending") =>
           state.schedule[lastCall'.idx].at <= now ]_vars

\* C21 witness: the head event was less than 5 seconds ahead and the tick set
\* its timer to the event's time, leaving the state as it was.
C21_Witness ==
  /\ pc = "idle"
  /\ lastOutcome = "waiting"
  /\ lastDelay > 0
  /\ lastDelay < 5000
  /\ timerDue = HeadEntry(state).at
  /\ state.sentCount = 0
  /\ file = state

\* The state on file is a completed one.
CompletedOnFile == IsState(file) /\ file.completed

\* C22: a tick that finds the cursor at the end of the schedule (when it
\* begins, or after skipping the last event) sets completed, writes the state
\* and sets no timer; once the state on file is completed, no step of that run
\* or of a later run under the same configuration calls the notifier or
\* changes the state.
C22_CompletedIsTerminal ==
  [][ /\ (/\ crashes' = crashes
          /\ \/ pc = "skipEnd"
             \/ /\ pc = "idle"
                /\ pc' # "idle"
                /\ IsState(state)
                /\ ~state.completed
                /\ state.sentCount >= Len(state.schedule)) =>
           /\ state' = [state EXCEPT !.completed = TRUE]
           /\ file' = state'
           /\ pc' = "stopped"
           /\ timers' = 0
      /\ (CompletedOnFile /\ config' = config) =>
           /\ file' = file
           /\ IsState(state') => state' = file
           /\ delivered' = delivered
           /\ skipped' = skipped
           /\ pc' # "sending" ]_vars

\* C23: a countdown or start event handed to the notifier carries the text and
\* the image of its own schedule entry, also after stale events were skipped
\* earlier in the tick.
C23_PayloadOfSameEntry ==
  (pc = "sending" /\ lastCall.kind \in {"countdown", "start"}) =>
    /\ lastCall.text = state.schedule[lastCall.idx].text
    /\ lastCall.image = state.schedule[lastCall.idx].image

(***************************************************************************)
(* Progress of the delivery loop.  Node.js runs every continuation that is  *)
(* ready and fires every timer that is due (once the clock has reached it); *)
(* when, and whether, the promise of sendDiscordMessage settles is up to    *)
(* discord.js and the network: lines 120-160 and 652-714 set no bound.      *)
(***************************************************************************)
Fairness ==
  /\ WF_vars(Prune)
  /\ WF_vars(TickStart)
  /\ WF_vars(Skip)
  /\ WF_vars(SkipComplete)
  /\ WF_vars(Send)
  /\ WF_vars(SendSucceeded)
  /\ WF_vars(Wait)

SpecLive == Init /\ [][Next]_vars /\ Fairness

\* The delivery loop of a process that is not killed between two statements
\* (one that dies inside a write still ends its run), where besides the clock
\* keeps advancing and every call of sendDiscordMessage settles, by resolving
\* or by throwing.
NextTerm ==
  \/ Start
  \/ Prune
  \/ TickStart
  \/ Skip
  \/ SkipComplete
  \/ Send
  \/ Accept
  \/ SendSucceeded
  \/ SendFailed
  \/ Wait
  \/ Advance

Termination ==
  /\ Fairness
  /\ WF_vars(Advance)
  /\ WF_vars(Accept \/ SendFailed)

SpecTerm == Init /\ [][NextTerm]_vars /\ Termination

\* The loop has stopped with completed set, the cursor at the end of the
\* schedule and every position delivered or skipped.
Completed ==
  /\ pc = "stopped"
  /\ IsState(state)
  /\ state.completed
  /\ state.sentCount = Len(state.schedule)
  /\ \A i \in 1..Len(state.schedule) : Resolved(i)

\* C24: while the clock advances, timers fire and every notifier call
\* returns, a running delivery loop ends in COMPLETED with every schedule
\* position resolved (unless the process dies first), also when every call
\* fails.
C24_LoopCompletes == (pc = "idle") ~> (pc = "down" \/ Completed)

\* C24 witness: the loop completed although a notifier call was made and no
\* call ever delivered: the event whose sends failed was skipped as stale.
C24_Witness ==
  /\ Completed
  /\ crashes = 0
  /\ lastCall.idx > 0
  /\ \A i \in 1..Len(delivered) : delivered[i] = 0
  /\ lastCall.idx \in skipped

\* C15: a notifier call in flight always ends (as a delivery, as a failure
\* followed by a timer, or with the process), so the loop is never left
\* waiting in it for ever.
C15_StuckCallEnds == (pc = "sending") ~> (pc # "sending")

(***************************************************************************)
(* generateSchedule, lines 286-337: the per-hour quotas                    *)
(***************************************************************************)
MaxTotal == 4     \* largest totalMessagesNeeded of the inputs
MaxWeight == 3    \* weights are 1..MaxWeight (only their ratios matter)

\* Math.ceil(a / b) for b > 0
CeilDiv(a, b) == -((-a) \div b)

\* Math.round(a / b) for b > 0: floor(a / b + 1/2), halves round up
RoundDiv(a, b) == (2 * a + b) \div (2 * b)

RECURSIVE SumSeq(_)
SumSeq(q) == IF q = <<>> THEN 0 ELSE q[1] + SumSeq(Tail(q))

\* lines 292-301: the number of hours, extended until hours * maxPerHour
\* can hold the total
HoursFor(c, total) ==
  LET initialHours == CeilDiv(c.endTimeUtc - c.startTimeUtc, HOUR_MS)
      hours == Max(1, initialHours)
      maxPossible == hours * c.maxPerHour
  IN IF maxPossible < total
     THEN hours + CeilDiv(total - maxPossible, c.maxPerHour)
     ELSE hours

\* line 306
RoundedQuotas(weights, total) ==
  [h \in 1..Len(weights) |-> RoundDiv(weights[h] * total, SumSeq(weights))]

\* lines 313-323: the shortfall goes to the hours with headroom, in the order idxs
RECURSIVE AddShortfall(_, _, _, _)
AddShortfall(perHour, idxs, diff, maxPerHour) ==
  IF idxs = <<>> \/ diff <= 0 THEN perHour
  ELSE LET i == idxs[1]
           headroom == maxPerHour - perHour[i]
           add == Min(headroom, diff)
       IN IF headroom > 0
          THEN AddShortfall([perHour EXCEPT ![i] = @ + add], Tail(idxs), diff - add, maxPerHour)
          ELSE AddShortfall(perHour, Tail(idxs), diff, maxPerHour)

\* lines 324-335: the excess is taken from the hours with a quota, in the order idxs
RECURSIVE RemoveExcess(_, _, _)
RemoveExcess(perHour, idxs, remaining) ==
  IF idxs = <<>> \/ remaining <= 0 THEN perHour
  ELSE LET i == idxs[1]
           reducible == Max(0, perHour[i] - 0)
           r == Min(reducible, remaining)
       IN IF reducible > 0
          THEN RemoveExcess([perHour EXCEPT ![i] = @ - r], Tail(idxs), remaining - r)
          ELSE RemoveExcess(perHour, Tail(idxs), remaining)

\* lines 306-337
PerHourQuotas(weights, total, maxPerHour, idxs) ==
  LET rounded == RoundedQuotas(weights, total)
      clipped == [h \in 1..Len(weights) |-> Min(rounded[h], maxPerHour)]
      diff == total - SumSeq(clipped)
  IN IF SumSeq(rounded) = total THEN rounded
     ELSE IF diff > 0 THEN AddShortfall(clipped, idxs, diff, maxPerHour)
     ELSE IF diff < 0 THEN RemoveExcess(clipped, idxs, -diff)
     ELSE clipped

\* The orders Array.sort(() => Math.random() - 0.5) can leave 1..n in.
Shuffles(n) == { p \in [1..n -> 1..n] : \A i \in 1..n : \E j \in 1..n : p[j] = i }

AllocInputs ==
  { [startTimeUtc |-> 0, endTimeUtc |-> e, targetTotalUsd |-> t,
     amountPerMessageUsd |-> a, maxPerHour |-> m] :
       e \in {HOUR_MS, HOUR_MS + HOUR_MS \div 2, 2 * HOUR_MS},
       t \in {100 * k : k \in 1..MaxTotal} \cup {250},
       a \in {100}, m \in 1..3 }

InitAlloc ==
  /\ config \in AllocInputs
  /\ DeliveryAtRest
  /\ alloc = [stage |-> "config"]
  /\ dedup = NoDedup
  /\ plan = NoPlan
  /\ timeOffset = NoOffset
  /\ sync = NoSync

\* generateSchedule up to line 337, with the weights of generatePerHourWeights
\* and the shuffle drawn freely.
GenerateQuotas ==
  /\ alloc.stage = "config"
  /\ LET total == totalMessagesNeeded(config)
         hours == HoursFor(config, total)
     IN \E weights \in [1..hours -> 1..MaxWeight] :
          \E idxs \in Shuffles(hours) :
            alloc' = [stage |-> "quotas",
                      totalMessagesNeeded |-> total,
                      hours |-> hours,
                      weights |-> weights,
                      perHour |-> PerHourQuotas(weights, total, config.maxPerHour, idxs)]
  /\ UNCHANGED <<deliveryVars, dedup, plan, timeOffset, sync>>

NextAlloc == GenerateQuotas

SpecAlloc == InitAlloc /\ [][NextAlloc]_vars

\* C8: the per-hour quotas are non-negative integers that sum to
\* ceil(targetTotalUsd / amountPerMessageUsd), each at most maxPerHour.
C8_QuotasSumAndCap ==
  alloc.stage = "quotas" =>
    /\ \A h \in 1..alloc.hours : alloc.perHour[h] \in Nat
    /\ SumSeq(alloc.perHour) = CeilDiv(config.targetTotalUsd, config.amountPerMessageUsd)
    /\ \A h \in 1..alloc.hours : alloc.perHour[h] <= config.maxPerHour

(***************************************************************************)
(* enforceUniqueIntervals, lines 189-270                                   *)
(***************************************************************************)
MaxTimes == 8        \* longest input
radiusLimit == 300

\* lines 179-183 (the epoch is aligned to the hour)
floorToHourTs(timestampMs) == timestampMs - (timestampMs % HOUR_MS)

\* lines 185-187
secondOfHour(timestampMs) == (timestampMs - floorToHourTs(timestampMs)) \div 1000

\* Math.max(1, Math.round((curr - prev) / 1000)), lines 205, 241 and 254
DeltaSec(curr, prev) == Max(1, RoundDiv(curr - prev, 1000))

SetMin(S) == CHOOSE x \in S : \A y \in S : x <= y

\* lines 195-200
InitialHourToSeconds(times) ==
  [hourKey \in {floorToHourTs(times[k]) : k \in 1..Len(times)} |->
     {secondOfHour(times[k]) : k \in {j \in 1..Len(times) : floorToHourTs(times[j]) = hourKey}}]

\* line 214: the relocated instant stays in its clock hour and at least 1 s
\* after its predecessor
LowerBound(times, i) == Max(floorToHourTs(times[i]), times[i - 1] + 1000)

\* A variant of UpperBound that looks at the end of the hour only.
UpperBound_HourEndOnly(times, i) == floorToHourTs(times[i]) + HOUR_MS - 1

\* lines 213 and 215-217: ... and at least 1 s before its successor
UpperBound(times, i) ==
  LET hourEnd == floorToHourTs(times[i]) + HOUR_MS - 1
  IN IF i + 1 <= Len(times) THEN Min(hourEnd, times[i + 1] - 1000) ELSE hourEnd

\* lines 202-267: the loop from index i (counted from 1) to the end
RECURSIVE UniqueFrom(_, _, _, _)
UniqueFrom(times, i, usedIntervals, hourToSeconds) ==
  IF i > Len(times) THEN times
  ELSE
    LET prev == times[i - 1]
        curr == times[i]
        deltaSec == DeltaSec(curr, prev)
        hourKey == floorToHourTs(curr)
        hourStart == hourKey
        lowerBound == LowerBound(times, i)
        upperBound == UpperBound(times, i)
        baseSec == secondOfHour(curr)
        usedSecsInHour == hourToSeconds[hourKey] \ {baseSec}
        lbSec == CeilDiv(lowerBound - hourStart, 1000)
        ubSec == (upperBound - hourStart) \div 1000
        Free(sec) == /\ sec \notin usedSecsInHour
                     /\ DeltaSec(hourStart + sec * 1000, prev) \notin usedIntervals
        PlusOk(r) == baseSec + r <= ubSec /\ Free(baseSec + r)
        MinusOk(r) == baseSec - r >= lbSec /\ Free(baseSec - r)
        radii == {r \in 1..radiusLimit : PlusOk(r) \/ MinusOk(r)}
        scan == {sec \in lbSec..ubSec : Free(sec)}
        newSec == IF radii # {}
                  THEN (IF PlusOk(SetMin(radii)) THEN baseSec + SetMin(radii)
                                                 ELSE baseSec - SetMin(radii))
                  ELSE IF scan # {} THEN SetMin(scan)
                  ELSE baseSec
        found == radii # {} \/ scan # {}
        newCurr == IF found THEN hourStart + newSec * 1000 ELSE curr
        newDelta == IF found THEN DeltaSec(newCurr, prev) ELSE deltaSec
    IN IF deltaSec \notin usedIntervals
       THEN UniqueFrom(times, i + 1, usedIntervals \cup {deltaSec}, hourToSeconds)
       ELSE IF lowerBound > upperBound
       THEN UniqueFrom(times, i + 1, usedIntervals \cup {deltaSec}, hourToSeconds)
       ELSE UniqueFrom([times EXCEPT ![i] = newCurr], i + 1,
                       usedIntervals \cup {newDelta},
                       [hourToSeconds EXCEPT
                          ![hourKey] = usedSecsInHour \cup {secondOfHour(newCurr)}])

\* lines 189-270
enforceUniqueIntervals(scheduleIsoArray) ==
  IF Len(scheduleIsoArray) <= 1 THEN scheduleIsoArray
  ELSE UniqueFrom(scheduleIsoArray, 2, {}, InitialHourToSeconds(scheduleIsoArray))

\* The gap that ends at position i, in whole seconds.
Gap(times, i) == DeltaSec(times[i], times[i - 1])

\* The number of gaps whose value already occurred at an earlier position.
DuplicateGaps(times) ==
  Cardinality({i \in 2..Len(times) : \E j \in 2..(i - 1) : Gap(times, j) = Gap(times, i)})

\* Whole-second instants the inputs are drawn from: around the ends of the
\* first two clock hours.
DedupInstants ==
  {1000 * sec : sec \in {3585, 3590, 3592, 3594, 3597, 3600, 3601, 7196, 7199}}

\* The instants of S in increasing order (schedule.sort(), line 348).
RECURSIVE Sorted(_)
Sorted(S) == IF S = {} THEN <<>> ELSE <<SetMin(S)>> \o Sorted(S \ {SetMin(S)})

\* Strictly increasing sequences of at most MaxTimes instants.
DedupInputs == {Sorted(S) : S \in {T \in SUBSET DedupInstants : Cardinality(T) <= MaxTimes}}

InitDedup ==
  /\ config \in {[tag |-> "none"]}
  /\ DeliveryAtRest
  /\ alloc = NoAlloc
  /\ dedup \in {[stage |-> "input", input |-> t] : t \in DedupInputs}
  /\ plan = NoPlan
  /\ timeOffset = NoOffset
  /\ sync = NoSync

Enforce ==
  /\ dedup.stage = "input"
  /\ dedup' = [stage |-> "done", input |-> dedup.input,
               output |-> enforceUniqueIntervals(dedup.input)]
  /\ UNCHANGED <<deliveryVars, alloc, plan, timeOffset, sync>>

NextDedup == Enforce

SpecDedup == InitDedup /\ [][NextDedup]_vars

\* C9: the output of enforceUniqueIntervals has no more duplicate gaps than
\* its input.
C9_NoMoreDuplicateGaps ==
  dedup.stage = "done" => DuplicateGaps(dedup.output) <= DuplicateGaps(dedup.input)

\* C20: the output of enforceUniqueIntervals has the length of its input, is
\* strictly increasing and begins with the same instant; an instant it moved
\* is still in its clock hour, at least 1 s after the one before it and at
\* least 1 s before the one after it.
C20_PreservesCountAndOrder ==
  dedup.stage = "done" =>
    LET inp == dedup.input
        out == dedup.output
        n == Len(inp)
    IN /\ Len(out) = n
       /\ \A i \in 2..n : out[i - 1] < out[i]
       /\ n >= 1 => out[1] = inp[1]
       /\ \A i \in 1..n :
            out[i] # inp[i] =>
              /\ floorToHourTs(out[i]) = floorToHourTs(inp[i])
              /\ out[i] >= out[i - 1] + 1000
              /\ i < n => out[i] + 1000 <= out[i + 1]

\* C20 witness: an instant between two neighbours at most 6 s apart was moved.
C20_Witness ==
  /\ dedup.stage = "done"
  /\ \E i \in 2..(Len(dedup.input) - 1) :
       /\ dedup.output[i] # dedup.input[i]
       /\ dedup.input[i + 1] - dedup.input[i - 1] <= 6000

(***************************************************************************)
(* initializeTimeOffset, lines 80-110                                      *)
(***************************************************************************)
MaxCalls == 2     \* calls of initializeTimeOffset in one behaviour

\* Date.now() at the call (line 86) and the reference instants of the service
SystemTimes == {1000 * k : k \in 10..15}
ReferenceTimes == {1000 * k + 250 : k \in 9..14}

\* What `await axios.get(...)' (line 90) can end in: a response whose
\* data.utc_datetime is a date string, is not a date string, or is missing; a
\* response without data; the 8 s timeout; a network error.
NoResponse == [kind |-> "none", utc |-> 0]
Responses ==
  {[kind |-> "ok", utc |-> t] : t \in ReferenceTimes}
    \cup {[kind |-> k, utc |-> 0] :
            k \in {"unparsable", "missing", "nodata", "timeout", "network"}}

NaN == [tag |-> "nan"]
Num(x) == [tag |-> "num", ms |-> x]

\* new Date(res.data.utc_datetime).getTime(), line 91: a number for a date
\* string, NaN for anything else (new Date(undefined) is an invalid date).
DateGetTime(resp) == IF resp.kind = "ok" THEN Num(resp.utc) ELSE NaN

\* a - b on JavaScript numbers
Minus(a, b) == IF a.tag = "num" /\ b.tag = "num" THEN Num(a.ms - b.ms) ELSE NaN

\* axios.get rejects, or reading res.data.utc_datetime throws: the catch of
\* lines 99-104 is entered.
Throws(resp) == resp.kind \in {"nodata", "timeout", "network"}

InitTime ==
  /\ config \in {[tag |-> "none"]}
  /\ DeliveryAtRest
  /\ alloc = NoAlloc
  /\ dedup = NoDedup
  /\ plan = NoPlan
  /\ timeOffset = NoOffset
  /\ sync = [stage |-> "ready", calls |-> 0, systemTime |-> 0, response |-> NoResponse]

\* lines 82-90: the call returns at once when timeOffset is set, else it reads
\* the local clock and starts the request.
CallInitialize ==
  /\ sync.stage \in {"ready", "done"}
  /\ sync.calls < MaxCalls
  /\ IF timeOffset # NoOffset
     THEN sync' = [sync EXCEPT !.calls = @ + 1]
     ELSE \E t \in SystemTimes :
            sync' = [stage |-> "fetching", calls |-> sync.calls + 1,
                     systemTime |-> t, response |-> NoResponse]
  /\ UNCHANGED <<deliveryVars, alloc, dedup, plan, timeOffset>>

\* lines 90-109: the request settles.
FetchSettles ==
  /\ sync.stage = "fetching"
  /\ \E resp \in Responses :
       /\ timeOffset' = IF Throws(resp) THEN Num(0)
                        ELSE Minus(DateGetTime(resp), Num(sync.systemTime))
       /\ sync' = [sync EXCEPT !.stage = "done", !.response = resp]
  /\ UNCHANGED <<deliveryVars, alloc, dedup, plan>>

NextTime == CallInitialize \/ FetchSettles

SpecTime == InitTime /\ [][NextTime]_vars

MaxBuys == 3      \* largest totalMessagesNeeded of the inputs

\* seconds of the hour Math.random may give (lines 168-171)
SampleSeconds == {0, 1, 3597, 3598, 3599}

\* seconds of the burst window Math.random may give (lines 361-364)
BurstSeconds == {0, 1, 59}

CountdownMinutes == <<59, 30, 15, 5, 4, 3, 2, 1>>

\* sampleUniqueSecondsWithinHour (max = 3600) and sampleUniqueSeconds
\* (max = Math.max(1, spanSeconds)): the sets of seconds they may return
SecondSamples(count, max, pool) ==
  IF count >= max THEN {0..(max - 1)}
  ELSE {S \in SUBSET {sec \in pool : sec < max} : Cardinality(S) = count}

\* lines 340-347: the instants drawn for the hours h, h + 1, ... of perHour
RECURSIVE SampledInstants(_, _, _)
SampledInstants(start, perHour, h) ==
  IF h > Len(perHour) THEN {{}}
  ELSE {{start + (h - 1) * HOUR_MS + sec * 1000 : sec \in S} \cup R :
          S \in SecondSamples(perHour[h], 3600, SampleSeconds),
          R \in SampledInstants(start, perHour, h + 1)}

\* lines 303-337: the quotas the weights and the shuffle may lead to
Quotas(c, total, hours) ==
  {PerHourQuotas(weights, total, c.maxPerHour, idxs) :
     weights \in [1..hours -> 1..MaxWeight], idxs \in Shuffles(hours)}

\* generateSchedule, lines 286-354: the results it may return
generateSchedule(c) ==
  LET total == CeilDiv(c.targetTotalUsd, c.amountPerMessageUsd)
      hours == HoursFor(c, total)
  IN UNION {{[start |-> c.startTimeUtc,
              hours |-> hours,
              perHour |-> perHour,
              sampled |-> Sorted(T),
              schedule |-> enforceUniqueIntervals(Sorted(T)),
              effectiveEnd |-> c.startTimeUtc + hours * HOUR_MS] :
               T \in SampledInstants(c.startTimeUtc, perHour, 1)} :
            perHour \in Quotas(c, total, hours)}

NoGen == [start |-> 0, hours |-> 0, perHour |-> <<>>, sampled |-> <<>>,
          schedule |-> <<>>, effectiveEnd |-> 0]

SpecialEnabled(c) == c.specialPhase.enabled

\* lines 379-380
initialBurstMinutes(c) ==
  IF c.specialPhase.initialBurstMinutes = 0 THEN 10 ELSE c.specialPhase.initialBurstMinutes
initialBurstCount(c) == c.specialPhase.initialBurstCount
burstSpanSec(c) == initialBurstMinutes(c) * 60

\* lines 393-420: the countdown entries and the start entry
SpecialEntries(c) ==
  IF SpecialEnabled(c)
  THEN [k \in 1..Len(CountdownMinutes) |->
          CountdownEntry(c.specialPhase.presaleStartUtc - CountdownMinutes[k] * 60000, k)]
         \o <<StartEntry(c.specialPhase.presaleStartUtc)>>
  ELSE <<>>

\* line 425: the seconds of the burst
BurstSamples(c) ==
  IF SpecialEnabled(c) /\ initialBurstCount(c) > 0
  THEN SecondSamples(initialBurstCount(c), Max(1, burstSpanSec(c)), BurstSeconds)
  ELSE {{}}

\* lines 426-429
BurstEntries(c, secs) ==
  [i \in 1..Cardinality(secs) |->
     BuyEntry(c.specialPhase.presaleStartUtc + Sorted(secs)[i] * 1000)]

\* lines 373 and 430
remainingMessages(c) ==
  LET total == CeilDiv(c.targetTotalUsd, c.amountPerMessageUsd)
  IN IF SpecialEnabled(c) /\ initialBurstCount(c) > 0
     THEN total - Min(initialBurstCount(c), total)
     ELSE total

\* A variant of normalStartIso that starts the normal window at the launch
\* instant also after a burst.
normalStartIso_AtLaunch(c) ==
  IF SpecialEnabled(c) THEN c.specialPhase.presaleStartUtc ELSE c.startTimeUtc

\* lines 374, 431 and 433
normalStartIso(c) ==
  IF SpecialEnabled(c)
  THEN IF initialBurstCount(c) > 0
       THEN c.specialPhase.presaleStartUtc + burstSpanSec(c) * 1000
       ELSE c.specialPhase.presaleStartUtc
  ELSE c.startTimeUtc

\* line 438
normalConfig(c) ==
  [c EXCEPT !.startTimeUtc = normalStartIso(c),
            !.targetTotalUsd = remainingMessages(c) * c.amountPerMessageUsd]

\* A variant of InsertByAt that puts an entry before the entries of its instant.
InsertByAt_BeforeTies(sorted, entry) ==
  LET k == Cardinality({i \in 1..Len(sorted) : sorted[i].at < entry.at})
  IN SubSeq(sorted, 1, k) \o <<entry>> \o SubSeq(sorted, k + 1, Len(sorted))

\* Array.prototype.sort is stable: an entry goes after the entries that are
\* not later than it.
InsertByAt(sorted, entry) ==
  LET k == Cardinality({i \in 1..Len(sorted) : sorted[i].at <= entry.at})
  IN SubSeq(sorted, 1, k) \o <<entry>> \o SubSeq(sorted, k + 1, Len(sorted))

\* entries.sort((a, b) => new Date(a.at) - new Date(b.at)), lines 441 and 445
RECURSIVE SortByAt(_)
SortByAt(entries) ==
  IF entries = <<>> THEN <<>>
  ELSE InsertByAt(SortByAt(SubSeq(entries, 1, Len(entries) - 1)), entries[Len(entries)])

NoSpecialPhase ==
  [enabled |-> FALSE, presaleStartUtc |-> 0, initialBurstMinutes |-> 0,
   initialBurstCount |-> 0]

\* Configurations: a one-hour window that starts on the hour or half past it,
\* or a special phase with a launch on the hour, with or without a burst.
PlanInputs ==
  {[startTimeUtc |-> st, endTimeUtc |-> st + HOUR_MS, targetTotalUsd |-> 100 * n,
    amountPerMessageUsd |-> 100, maxPerHour |-> m, specialPhase |-> NoSpecialPhase] :
      st \in {0, HOUR_MS \div 2}, n \in 1..MaxBuys, m \in {2, 3}}
    \cup
  {[startTimeUtc |-> 0, endTimeUtc |-> 3 * HOUR_MS, targetTotalUsd |-> 100 * n,
    amountPerMessageUsd |-> 100, maxPerHour |-> 3,
    specialPhase |-> [enabled |-> TRUE, presaleStartUtc |-> 2 * HOUR_MS,
                      initialBurstMinutes |-> 1, initialBurstCount |-> b]] :
      n \in 1..MaxBuys, b \in {0, 2}}

InitPlan ==
  /\ config \in PlanInputs
  /\ DeliveryAtRest
  /\ alloc = NoAlloc
  /\ dedup = NoDedup
  /\ plan = [stage |-> "config"]
  /\ timeOffset = NoOffset
  /\ sync = NoSync

\* generateFullSchedule, lines 368-448
GenerateFullSchedule ==
  /\ plan.stage = "config"
  /\ \E secs \in BurstSamples(config) :
       LET entries == SpecialEntries(config) \o BurstEntries(config, secs)
       IN IF remainingMessages(config) > 0
          THEN \E g \in generateSchedule(normalConfig(config)) :
                 plan' = [stage |-> "done",
                          gen |-> g,
                          schedule |-> SortByAt(entries \o
                                        [i \in 1..Len(g.schedule) |-> BuyEntry(g.schedule[i])]),
                          effectiveEnd |-> g.effectiveEnd]
          ELSE plan' = [stage |-> "done",
                        gen |-> NoGen,
                        schedule |-> SortByAt(entries),
                        effectiveEnd |-> IF entries = <<>> THEN config.startTimeUtc
                                         ELSE SortByAt(entries)[Len(entries)].at]
  /\ UNCHANGED <<deliveryVars, alloc, dedup, timeOffset, sync>>

NextPlan == GenerateFullSchedule

SpecPlan == InitPlan /\ [][NextPlan]_vars

\* C11: without special phase every instant generateSchedule returns is in
\* [start, effectiveEnd), also for a start that is not on the hour.
C11_BuysInsideWindow ==
  (plan.stage = "done" /\ ~SpecialEnabled(config)) =>
    \A i \in 1..Len(plan.gen.schedule) :
      /\ config.startTimeUtc <= plan.gen.schedule[i]
      /\ plan.gen.schedule[i] < plan.gen.effectiveEnd

\* The buy entries of a schedule, in order.
Buys(sched) == SelectSeq(sched, LAMBDA entry : entry.kind = "buy")

\* C12: the schedule generateFullSchedule returns is non-decreasing in `at'
\* and its buy entries are strictly increasing.
C12_SortedAndBuysDistinct ==
  plan.stage = "done" =>
    /\ \A i \in 2..Len(plan.schedule) : plan.schedule[i - 1].at <= plan.schedule[i].at
    /\ \A i \in 2..Len(Buys(plan.schedule)) :
         Buys(plan.schedule)[i - 1].at < Buys(plan.schedule)[i].at

\* C12 witness: a burst entry in the last second of the burst window is
\* followed by buy entries of the normal window.
C12_Witness ==
  /\ plan.stage = "done"
  /\ SpecialEnabled(config)
  /\ initialBurstCount(config) = 2
  /\ Len(plan.gen.schedule) >= 1
  /\ Len(plan.schedule) = 12
  /\ plan.schedule[11].at = config.specialPhase.presaleStartUtc + 59000
  /\ plan.schedule[12].at = normalStartIso(config)

\* C13: with the special phase and no burst the schedule begins with the 8
\* countdown entries and the start entry, at strictly increasing instants that
\* end at presaleStartUtc, and everything after them is a buy entry.
C13_SpecialEntriesFirst ==
  (plan.stage = "done" /\ SpecialEnabled(config) /\ initialBurstCount(config) = 0) =>
    /\ Len(plan.schedule) >= 9
    /\ \A k \in 1..8 : plan.schedule[k].kind = "countdown"
    /\ plan.schedule[9].kind = "start"
    /\ plan.schedule[9].at = config.specialPhase.presaleStartUtc
    /\ \A k \in 2..9 : plan.schedule[k - 1].at < plan.schedule[k].at
    /\ \A k \in 10..Len(plan.schedule) : plan.schedule[k].kind = "buy"

\* C13 witness: a buy entry drawn at second 0 has the instant of the start
\* entry and comes after it.
C13_Witness ==
  /\ plan.stage = "done"
  /\ SpecialEnabled(config)
  /\ initialBurstCount(config) = 0
  /\ Len(plan.schedule) >= 11
  /\ plan.schedule[10].kind = "buy"
  /\ plan.schedule[10].at = plan.schedule[9].at

\* C25: the schedule generateFullSchedule returns holds exactly
\* ceil(targetTotalUsd / amountPerMessageUsd) buy entries, with or without the
\* special phase and for every burst count.
C25_BuysAddUpToTotal ==
  plan.stage = "done" =>
    Len(Buys(plan.schedule)) = totalMessagesNeeded(config)

====
